---- MODULE Spec2Model ----
(***************************************************************************)
(* Order checkout, cancellation and stock maintenance of the POS system:   *)
(* the server actions of lib/actions/orders.ts and lib/actions/products.ts *)
(* running against the tables, constraints and triggers of                 *)
(* database_schema.sql.  Every awaited database statement is one atomic    *)
(* step; the statements of concurrent server actions interleave.  The POS   *)
(* page (app/pos/page.tsx, components/pos/cart.tsx) and the hook           *)
(* useSupabaseSubscription are the browser side: a handler runs as one     *)
(* step up to its await.                                                   *)
(***************************************************************************)
EXTENDS Integers, Sequences, FiniteSets, TLC

\* ------------------------------------------------------------------ bounds
MaxStock == 1        \* largest quantity_on_hand explored
MaxQty == 1          \* largest quantity requested on a cart line
MaxCartLen == 2      \* longest cart
MaxCalls == 3        \* server actions invoked in one behaviour
MaxLineQty == 3      \* largest quantity a line of the POS page's cart reaches
MaxRev == 2          \* most revisions a row of the subscribed table goes through
MaxHeld == 4         \* most items the subscription hook holds

Procs == {1, 2}               \* concurrent callers; a caller's id is its profile id
Admins == {1}                 \* callers whose profile has role admin
ProductIds == {1, 2}          \* rows of the products table
ProductRefs == ProductIds \cup {3}   \* ids a client can send; 3 has no row
OrderRefs == 1..MaxCalls      \* order ids a client can send to cancelOrder

\* Amounts are integer cents; tax rates are hundredths of a percent
\* (DECIMAL(10, 2) and DECIMAL(5, 2) columns).
Prices == {5, 199}
TaxRates == {0, 1000}

\* price and tax_rate of the sample product the schema inserts.
SeedCatalog == [k \in ProductIds |-> [price |-> 350, tax_rate |-> 0]]
\* The catalogs explored: any price and tax rate, the same for every product.
Catalogs == {[k \in ProductIds |-> c] : c \in [price : Prices, tax_rate : TaxRates]}

\* The product snapshot a cart line carries: the client's copy of the product.
\* The POS page fills it from the product list it loaded.
Snapshot(k) == IF k \in ProductIds THEN SeedCatalog[k] ELSE [price |-> 350, tax_rate |-> 0]

\* Cart lines of a client whose snapshot is the seed catalog.
CartItem == {[product_id |-> k, quantity |-> q, product |-> Snapshot(k)] :
               k \in ProductRefs, q \in 1..MaxQty}

\* Cart lines of a client that sends any snapshot.
PricedCartItem == [product_id : ProductRefs, quantity : 1..MaxQty,
                   product : [price : Prices, tax_rate : TaxRates]]
RECURSIVE SeqsUpTo(_, _)
SeqsUpTo(S, n) ==
  IF n = 0 THEN {<<>>}
  ELSE LET shorter == SeqsUpTo(S, n - 1)
       IN shorter \cup {Append(s, x) : s \in {t \in shorter : Len(t) = n - 1}, x \in S}
Carts == SeqsUpTo(CartItem, MaxCartLen)
PricedCarts == SeqsUpTo(PricedCartItem, MaxCartLen)

VARIABLES
  products,        \* products table: id -> [quantity_on_hand, price, tax_rate, is_active]
  orders,          \* orders table, in insertion order; the row's id is its index
  order_items,     \* order_items table, in insertion order
  inventory_logs,  \* inventory_logs table, in insertion order
  pc,              \* per caller: the statement its server action is about to issue
  call,            \* per caller: the server action and its arguments
  idx,             \* per caller: loop index of the current for loop
  local,           \* per caller: order (id of the inserted header), orderItems (rows read by cancelOrder)
  result,          \* per caller: the ApiResponse returned by the last finished action
  io,              \* per caller: reads and writes the current action sent to the database,
                   \* and whether the database failed to answer one of them
  calls,           \* server actions invoked so far
  initial,         \* quantity_on_hand of every product at the start
  cart,            \* POS page: the cart lines, in the order they were added
  profile,         \* POS page: id of the loaded user profile, 0 while it is null
  isCheckoutLoading,  \* POS page: the flag handleCheckout raises around its await
  handler,         \* POS page: where handleCheckout stands, "idle" or "awaiting"
  isCheckoutOpen,  \* POS page: the checkout modal is open
  isReceiptOpen,   \* POS page: the receipt modal is open
  lastOrder,       \* POS page: the order the receipt shows, 0 while it is null
  toast,           \* POS page: the last toast message shown
  event,           \* useSupabaseSubscription: the event the hook subscribed with
  data,            \* useSupabaseSubscription: the list the hook holds
  watched          \* the subscribed table: id -> revision of the row, 0 if it has none

\* State of the browser: the POS page and the subscription hook.
page == <<cart, profile, isCheckoutLoading, handler, isCheckoutOpen, isReceiptOpen,
          lastOrder, toast>>
hook == <<event, data, watched>>
client == <<page, hook>>

vars == <<products, orders, order_items, inventory_logs, pc, call, idx, local,
          result, io, calls, initial, client>>

tables == <<products, orders, order_items, inventory_logs>>

NoCall == [name |-> "none"]
NoResult == [success |-> FALSE, error |-> "none", arg |-> 0, data |-> 0]
NoLocal == [order |-> 0, orderItems |-> <<>>]
NoIo == [reads |-> 0, writes |-> 0, failed |-> FALSE]

Ok(d) == [success |-> TRUE, error |-> "", arg |-> 0, data |-> d]
Fail(e, a) == [success |-> FALSE, error |-> e, arg |-> a, data |-> 0]

Qty(prods) == [k \in ProductIds |-> prods[k].quantity_on_hand]

\* The products tables that hold the catalog with any quantities in stock.
StockedProducts(catalog) ==
  {[k \in ProductIds |-> [quantity_on_hand |-> q[k],
                          price |-> catalog[k].price,
                          tax_rate |-> catalog[k].tax_rate,
                          is_active |-> TRUE]] : q \in [ProductIds -> 0..MaxStock]}

\* ItemIds: ids of the rows of the subscribed table.
ItemIds == {1, 2}

\* The useState initial values of the POS page.
PageInit ==
  /\ cart = <<>>
  /\ profile = 0
  /\ isCheckoutLoading = FALSE
  /\ handler = "idle"
  /\ isCheckoutOpen = FALSE
  /\ isReceiptOpen = FALSE
  /\ lastOrder = 0
  /\ toast = ""

\* The useState initial value of the hook, subscribed with the default event.
HookInit ==
  /\ event = "*"
  /\ data = <<>>
  /\ watched = [k \in ItemIds |-> 0]

Init ==
  /\ products \in StockedProducts(SeedCatalog)
  /\ orders = <<>>
  /\ order_items = <<>>
  /\ inventory_logs = <<>>
  /\ pc = [p \in Procs |-> "idle"]
  /\ call = [p \in Procs |-> NoCall]
  /\ idx = [p \in Procs |-> 0]
  /\ local = [p \in Procs |-> NoLocal]
  /\ result = [p \in Procs |-> NoResult]
  /\ io = [p \in Procs |-> NoIo]
  /\ calls = 0
  /\ initial = Qty(products)
  /\ PageInit
  /\ HookInit

\* ------------------------------------------------------- database schema

\* The column without its CHECK constraint.
CheckQuantityOnHand_Dropped(q) == TRUE

\* products.quantity_on_hand INT CHECK (quantity_on_hand >= 0)
CheckQuantityOnHand(q) == q >= 0

\* order_items.quantity INT CHECK (quantity > 0)
CheckItemQuantity(q) == q > 0

\* orders.order_number TEXT UNIQUE
OrderNumberFree(os, n) == \A i \in DOMAIN os : os[i].order_number # n

\* SELECT product_id, quantity FROM order_items WHERE order_id = NEW.id
ItemsOfOrder(items, oid) == SelectSeq(items, LAMBDA it : it.order_id = oid)

\* The loop of the trigger function: one UPDATE of products and one INSERT
\* into inventory_logs per selected row.
RECURSIVE SaleLoop(_, _, _, _, _)
SaleLoop(rows, i, prods, logs, newRow) ==
  IF i > Len(rows) THEN [products |-> prods, inventory_logs |-> logs]
  ELSE LET r == rows[i]
           q == prods[r.product_id].quantity_on_hand - r.quantity
       IN SaleLoop(rows, i + 1,
                   [prods EXCEPT ![r.product_id].quantity_on_hand = q],
                   Append(logs, [product_id |-> r.product_id,
                                 transaction_type |-> "sale",
                                 quantity_change |-> 0 - r.quantity,
                                 reference_id |-> newRow.id,
                                 created_by |-> newRow.cashier_id]),
                   newRow)

\* AFTER INSERT ON orders FOR EACH ROW (newRow is the row NEW): runs inside the INSERT statement, over
\* the order_items rows that exist at that moment.
update_inventory_on_order(prods, logs, items, newRow) ==
  SaleLoop(ItemsOfOrder(items, newRow.id), 1, prods, logs, newRow)

\* A statement whose effects break a CHECK constraint is rejected as a whole.
ProductsValid(prods) == \A k \in ProductIds : CheckQuantityOnHand(prods[k].quantity_on_hand)

\* ------------------------------------------------------------- bookkeeping

Idle(p) == pc[p] \in {"idle", "done"}

\* Caller p starts the server action c.
Invoke(p, c) ==
  /\ Idle(p)
  /\ calls < MaxCalls
  /\ calls' = calls + 1
  /\ call' = [call EXCEPT ![p] = c]

\* The action of caller p returns r.
Return(p, r) ==
  /\ pc' = [pc EXCEPT ![p] = "done"]
  /\ result' = [result EXCEPT ![p] = r]

\* Caller p sends one statement to the database, which answers it or fails.
Read(p, answered) ==
  io' = [io EXCEPT ![p].reads = @ + 1, ![p].failed = @ \/ ~answered]

Write(p, answered) ==
  io' = [io EXCEPT ![p].writes = @ + 1, ![p].failed = @ \/ ~answered]

\* The admin-only actions are offered to admins only (role gating of the pages).
InvokeAdmin(p, c) == p \in Admins /\ Invoke(p, c)

\* ------------------------------------------------------------ calculations

\* Math.round(num / den): the nearest integer, a half rounded up.
Round(num, den) == (2 * num + den) \div (2 * den)

\* formatDecimal(num): num rounded to two decimals, that is to the cent; the
\* amount in cents is the fraction num / den.
formatDecimal(num, den) == Round(num, den)

\* calculateTax cutting the tax off at the cent instead of rounding it.
calculateTax_Truncated(amount, taxRate) == (amount * taxRate) \div 10000

\* calculateTax(amount, taxRate) = formatDecimal(amount * (taxRate / 100))
calculateTax(amount, taxRate) == formatDecimal(amount * taxRate, 10000)

\* The forEach loop of calculateCartTotals from item i on.
RECURSIVE CartTotalsLoop(_, _, _, _)
CartTotalsLoop(items, i, subtotal, tax) ==
  IF i > Len(items) THEN [subtotal |-> subtotal, tax |-> tax]
  ELSE LET item == items[i]
           itemSubtotal == item.quantity * item.unit_price
           itemTax == calculateTax(itemSubtotal, item.tax_rate)
       IN CartTotalsLoop(items, i + 1, subtotal + itemSubtotal, tax + itemTax)

calculateCartTotals(items) ==
  LET sums == CartTotalsLoop(items, 1, 0, 0)
  IN [subtotal |-> formatDecimal(sums.subtotal, 1),
      tax |-> formatDecimal(sums.tax, 1),
      total |-> formatDecimal(sums.subtotal + sums.tax, 1)]

\* -------------------------------------------------------------- createOrder

\* orderItems = items.map(...): the priced lines the totals are computed from.
OrderItems(items) ==
  [i \in DOMAIN items |-> [product_id |-> items[i].product_id,
                           quantity |-> items[i].quantity,
                           unit_price |-> items[i].product.price,
                           tax_rate |-> items[i].product.tax_rate]]

\* createOrder without its empty-cart check: an empty cart skips the
\* validation loop and goes on to insert the header.
CreateOrderCall_Unchecked(p) ==
  \E items \in Carts :
    /\ Invoke(p, [name |-> "createOrder", cashierId |-> p, items |-> items])
    /\ io' = [io EXCEPT ![p] = NoIo]
    /\ idx' = [idx EXCEPT ![p] = 1]
    /\ local' = [local EXCEPT ![p] = NoLocal]
    /\ pc' = [pc EXCEPT ![p] = IF Len(items) = 0 THEN "insert_order" ELSE "validate"]
    /\ UNCHANGED <<tables, initial, client, result>>

\* Entry of createOrder: the empty-cart check, before any client is created.
CreateOrderCall(p) ==
  \E items \in Carts :
    /\ Invoke(p, [name |-> "createOrder", cashierId |-> p, items |-> items])
    /\ io' = [io EXCEPT ![p] = NoIo]
    /\ idx' = [idx EXCEPT ![p] = 1]
    /\ local' = [local EXCEPT ![p] = NoLocal]
    /\ IF Len(items) = 0
       THEN Return(p, Fail("Cart is empty", 0))
       ELSE /\ pc' = [pc EXCEPT ![p] = "validate"]
            /\ UNCHANGED result
    /\ UNCHANGED <<tables, initial, client>>

\* The same entry, called by a client that sends any product snapshot.
CreateOrderPriced(p) ==
  /\ Idle(p)
  /\ calls < MaxCalls
  /\ \E items \in PricedCarts :
       /\ Invoke(p, [name |-> "createOrder", cashierId |-> p, items |-> items])
       /\ io' = [io EXCEPT ![p] = NoIo]
       /\ idx' = [idx EXCEPT ![p] = 1]
       /\ local' = [local EXCEPT ![p] = NoLocal]
       /\ IF Len(items) = 0
          THEN Return(p, Fail("Cart is empty", 0))
          ELSE /\ pc' = [pc EXCEPT ![p] = "validate"]
               /\ UNCHANGED result
       /\ UNCHANGED <<tables, initial, client>>

\* The validation loop with the stock comparison off by one (<= for <).
ValidateItem_OffByOne(p) ==
  /\ pc[p] = "validate"
  /\ LET cartItem == call[p].items[idx[p]]
         found == cartItem.product_id \in ProductIds
     IN \E answered \in BOOLEAN :
          /\ Read(p, answered)
          /\ IF ~answered \/ ~found
             THEN /\ Return(p, Fail("Product not found", cartItem.product_id))
                  /\ UNCHANGED idx
             ELSE IF products[cartItem.product_id].quantity_on_hand <= cartItem.quantity
             THEN /\ Return(p, Fail("Insufficient stock for product", cartItem.product_id))
                  /\ UNCHANGED idx
             ELSE /\ idx' = [idx EXCEPT ![p] = @ + 1]
                  /\ pc' = [pc EXCEPT ![p] =
                             IF idx[p] = Len(call[p].items) THEN "insert_order" ELSE "validate"]
                  /\ UNCHANGED result
  /\ UNCHANGED <<tables, call, local, calls, initial, client>>

\* One iteration of the validation loop: SELECT quantity_on_hand ... .single()
ValidateItem(p) ==
  /\ pc[p] = "validate"
  /\ LET cartItem == call[p].items[idx[p]]
         found == cartItem.product_id \in ProductIds
     IN \E answered \in BOOLEAN :
          /\ Read(p, answered)
          /\ IF ~answered \/ ~found
             THEN /\ Return(p, Fail("Product not found", cartItem.product_id))
                  /\ UNCHANGED idx
             ELSE IF products[cartItem.product_id].quantity_on_hand < cartItem.quantity
             THEN /\ Return(p, Fail("Insufficient stock for product", cartItem.product_id))
                  /\ UNCHANGED idx
             ELSE /\ idx' = [idx EXCEPT ![p] = @ + 1]
                  /\ pc' = [pc EXCEPT ![p] =
                             IF idx[p] = Len(call[p].items) THEN "insert_order" ELSE "validate"]
                  /\ UNCHANGED result
  /\ UNCHANGED <<tables, call, local, calls, initial, client>>

\* generateOrderNumber(): a timestamp and four random digits.  Up to renaming,
\* the value is either one no order carries yet or one an order already carries.
generateOrderNumber(os) ==
  {Len(os) + 1} \cup {os[i].order_number : i \in DOMAIN os}

\* INSERT INTO orders ... with the trigger update_inventory_on_order.
InsertOrder(p) ==
  /\ pc[p] = "insert_order"
  /\ \E orderNumber \in generateOrderNumber(orders), answered \in BOOLEAN :
       /\ Write(p, answered)
       /\ LET totals == calculateCartTotals(OrderItems(call[p].items))
              newRow == [id |-> Len(orders) + 1,
                      cashier_id |-> call[p].cashierId,
                      order_number |-> orderNumber,
                      status |-> "completed",
                      created_at |-> Len(orders) + 1,
                      subtotal |-> totals.subtotal,
                      tax_total |-> totals.tax,
                      total |-> totals.total]
              after == update_inventory_on_order(products, inventory_logs, order_items, newRow)
              accepted == /\ answered
                          /\ OrderNumberFree(orders, orderNumber)
                          /\ ProductsValid(after.products)
          IN IF accepted
             THEN /\ orders' = Append(orders, newRow)
                  /\ products' = after.products
                  /\ inventory_logs' = after.inventory_logs
                  /\ local' = [local EXCEPT ![p].order = newRow.id]
                  /\ pc' = [pc EXCEPT ![p] = "insert_items"]
                  /\ UNCHANGED result
             ELSE /\ Return(p, Fail("Failed to create order", 0))
                  /\ UNCHANGED <<products, orders, inventory_logs, local>>
  /\ UNCHANGED <<order_items, call, idx, calls, initial, client>>

\* lineItems with line_total left without tax.
LineItems_Untaxed(items, orderId) ==
  [i \in DOMAIN items |->
     [order_id |-> orderId,
      product_id |-> items[i].product_id,
      quantity |-> items[i].quantity,
      unit_price |-> items[i].product.price,
      tax_rate |-> items[i].product.tax_rate,
      line_total |-> items[i].quantity * items[i].product.price]]

\* lineItems = items.map(...)
LineItems(items, orderId) ==
  [i \in DOMAIN items |->
     LET line == calculateCartTotals(<<[quantity |-> items[i].quantity,
                                        unit_price |-> items[i].product.price,
                                        tax_rate |-> items[i].product.tax_rate]>>)
     IN [order_id |-> orderId,
         product_id |-> items[i].product_id,
         quantity |-> items[i].quantity,
         unit_price |-> items[i].product.price,
         tax_rate |-> items[i].product.tax_rate,
         line_total |-> line.total]]

\* INSERT INTO order_items (all rows or none)
InsertItems(p) ==
  /\ pc[p] = "insert_items"
  /\ \E answered \in BOOLEAN :
       /\ Write(p, answered)
       /\ LET lineItems == LineItems(call[p].items, local[p].order)
              accepted == /\ answered
                          /\ \A i \in DOMAIN lineItems :
                               /\ CheckItemQuantity(lineItems[i].quantity)
                               /\ lineItems[i].product_id \in ProductIds
          IN IF accepted
             THEN /\ order_items' = order_items \o lineItems
                  /\ Return(p, Ok(local[p].order))
             ELSE /\ pc' = [pc EXCEPT ![p] = "soft_delete"]
                  /\ UNCHANGED <<order_items, result>>
  /\ UNCHANGED <<products, orders, inventory_logs, call, idx, local, calls, initial, client>>

\* UPDATE orders SET status = 'cancelled' WHERE id = order.id (result ignored)
SoftDelete(p) ==
  /\ pc[p] = "soft_delete"
  /\ \E answered \in BOOLEAN :
       /\ Write(p, answered)
       /\ orders' = IF answered
                    THEN [orders EXCEPT ![local[p].order].status = "cancelled"]
                    ELSE orders
  /\ Return(p, Fail("Failed to create order items", 0))
  /\ UNCHANGED <<products, order_items, inventory_logs, call, idx, local, calls, initial, client>>

\* ------------------------------------------------------------- getOrderById

\* SELECT *, items:order_items (*) FROM orders WHERE id = orderId ... .single():
\* one statement, which reads the order and its lines in one table state.
GetOrderById(p) ==
  \E orderId \in OrderRefs, answered \in BOOLEAN :
    /\ Invoke(p, [name |-> "getOrderById", orderId |-> orderId])
    /\ io' = [io EXCEPT ![p] = [reads |-> 1, writes |-> 0, failed |-> ~answered]]
    /\ IF answered /\ orderId \in DOMAIN orders
       THEN Return(p, Ok([order |-> orders[orderId],
                          items |-> ItemsOfOrder(order_items, orderId)]))
       ELSE Return(p, Fail("no rows returned", orderId))
    /\ local' = [local EXCEPT ![p] = NoLocal]
    /\ UNCHANGED <<tables, idx, initial, client>>

\* ---------------------------------------------------------- order listings

\* The default limits of getOrdersByCashier and getAllOrders.
CashierLimit == 50
AllLimit == 100

\* .order('created_at', { ascending: false }): the rows newest first.
\* created_at is the time of the insert, so the newest row is the last one.
NewestFirst(rows) == [i \in DOMAIN rows |-> rows[Len(rows) + 1 - i]]

\* .limit(n)
Limit(rows, n) == IF Len(rows) <= n THEN rows ELSE SubSeq(rows, 1, n)

\* items:order_items (*): each order row with its lines embedded.
WithItems(rows, items) ==
  [i \in DOMAIN rows |-> [order |-> rows[i], items |-> ItemsOfOrder(items, rows[i].id)]]

\* The listing of caller p, one SELECT statement, returns rows or fails.
Listing(p, c, rows) ==
  \E answered \in BOOLEAN :
    /\ Invoke(p, c)
    /\ io' = [io EXCEPT ![p] = [reads |-> 1, writes |-> 0, failed |-> ~answered]]
    /\ IF answered THEN Return(p, Ok(rows)) ELSE Return(p, Fail("Failed to fetch orders", 0))
    /\ local' = [local EXCEPT ![p] = NoLocal]
    /\ UNCHANGED <<tables, idx, initial, client>>

\* SELECT *, items FROM orders WHERE cashier_id = cashierId AND status =
\* 'completed' ORDER BY created_at DESC LIMIT limit
GetOrdersByCashier(p) ==
  \E cashierId \in Procs :
    Listing(p, [name |-> "getOrdersByCashier", cashierId |-> cashierId],
            WithItems(Limit(NewestFirst(SelectSeq(orders,
                        LAMBDA o : o.cashier_id = cashierId /\ o.status = "completed")),
                      CashierLimit), order_items))

\* SELECT *, cashier, items FROM orders ORDER BY created_at DESC LIMIT limit
GetAllOrders(p) ==
  Listing(p, [name |-> "getAllOrders"],
          WithItems(Limit(NewestFirst(orders), AllLimit), order_items))

\* SELECT * FROM orders WHERE created_at >= startDate AND created_at <= endDate
\* AND status = 'completed' ORDER BY created_at DESC (no lines are embedded)
GetOrdersByDateRange(p) ==
  \E startDate \in OrderRefs, endDate \in OrderRefs :
    Listing(p, [name |-> "getOrdersByDateRange", startDate |-> startDate, endDate |-> endDate],
            WithItems(NewestFirst(SelectSeq(orders,
                        LAMBDA o : /\ o.created_at >= startDate
                                   /\ o.created_at <= endDate
                                   /\ o.status = "completed")), <<>>))

\* -------------------------------------------------------------- cancelOrder

\* supabase.rpc('increment', { row_id, amount }): the function body is not part
\* of the repository; it adds amount to the quantity_on_hand of row row_id.
increment(prods, row_id, amount) ==
  [prods EXCEPT ![row_id].quantity_on_hand = @ + amount]

\* Entry of cancelOrder and its first statement:
\* SELECT * FROM order_items WHERE order_id = orderId
CancelOrderCall(p) ==
  \E orderId \in OrderRefs, answered \in BOOLEAN :
    /\ InvokeAdmin(p, [name |-> "cancelOrder", orderId |-> orderId, userId |-> p,
                       statusBefore |-> IF orderId \in DOMAIN orders
                                        THEN orders[orderId].status ELSE "none"])
    /\ io' = [io EXCEPT ![p] = [reads |-> 1, writes |-> 0, failed |-> ~answered]]
    /\ idx' = [idx EXCEPT ![p] = 1]
    /\ IF ~answered
       THEN /\ Return(p, Fail("Failed to fetch order items", 0))
            /\ local' = [local EXCEPT ![p] = NoLocal]
       ELSE LET orderItems == ItemsOfOrder(order_items, orderId)
            IN /\ local' = [local EXCEPT ![p] = [order |-> 0, orderItems |-> orderItems]]
               /\ pc' = [pc EXCEPT ![p] =
                          IF Len(orderItems) = 0 THEN "cancel_update" ELSE "cancel_rpc"]
               /\ UNCHANGED result
    /\ UNCHANGED <<tables, initial, client>>

\* await supabase.rpc('increment', ...) for the current item (result ignored)
CancelIncrement(p) ==
  /\ pc[p] = "cancel_rpc"
  /\ \E answered \in BOOLEAN :
       /\ Write(p, answered)
       /\ LET item == local[p].orderItems[idx[p]]
              after == IF answered
                       THEN increment(products, item.product_id, item.quantity)
                       ELSE products
          IN products' = after
  /\ pc' = [pc EXCEPT ![p] = "cancel_log"]
  /\ UNCHANGED <<orders, order_items, inventory_logs, call, idx, local, result, calls, initial, client>>

\* The log step of cancelOrder keeping only the entry it writes: the entries
\* recorded before are lost.
CancelLog_Overwrite(p) ==
  /\ pc[p] = "cancel_log"
  /\ \E answered \in BOOLEAN :
       /\ Write(p, answered)
       /\ LET item == local[p].orderItems[idx[p]]
          IN inventory_logs' =
               IF answered
               THEN <<[product_id |-> item.product_id,
                       transaction_type |-> "return",
                       quantity_change |-> item.quantity,
                       reference_id |-> call[p].orderId,
                       created_by |-> call[p].userId]>>
               ELSE inventory_logs
  /\ idx' = [idx EXCEPT ![p] = @ + 1]
  /\ pc' = [pc EXCEPT ![p] =
             IF idx[p] = Len(local[p].orderItems) THEN "cancel_update" ELSE "cancel_rpc"]
  /\ UNCHANGED <<products, orders, order_items, call, local, result, calls, initial, client>>

\* await supabase.from('inventory_logs').insert(...) for the current item
\* (result ignored), then the next iteration
CancelLog(p) ==
  /\ pc[p] = "cancel_log"
  /\ \E answered \in BOOLEAN :
       /\ Write(p, answered)
       /\ LET item == local[p].orderItems[idx[p]]
          IN inventory_logs' =
               IF answered
               THEN Append(inventory_logs, [product_id |-> item.product_id,
                                            transaction_type |-> "return",
                                            quantity_change |-> item.quantity,
                                            reference_id |-> call[p].orderId,
                                            created_by |-> call[p].userId])
               ELSE inventory_logs
  /\ idx' = [idx EXCEPT ![p] = @ + 1]
  /\ pc' = [pc EXCEPT ![p] =
             IF idx[p] = Len(local[p].orderItems) THEN "cancel_update" ELSE "cancel_rpc"]
  /\ UNCHANGED <<products, orders, order_items, call, local, result, calls, initial, client>>

\* The status update of cancelOrder writing the other status: an order that
\* is already cancelled goes back to completed.
CancelUpdate_Toggle(p) ==
  /\ pc[p] = "cancel_update"
  /\ \E answered \in BOOLEAN :
       /\ Write(p, answered)
       /\ IF answered /\ call[p].orderId \in DOMAIN orders
          THEN /\ orders' = [orders EXCEPT ![call[p].orderId].status =
                               IF @ = "cancelled" THEN "completed" ELSE "cancelled"]
               /\ Return(p, Ok(call[p].orderId))
          ELSE /\ Return(p, Fail("Failed to cancel order", call[p].orderId))
               /\ UNCHANGED orders
  /\ UNCHANGED <<products, order_items, inventory_logs, call, idx, local, calls, initial, client>>

\* The status update of cancelOrder without .single(): an update that
\* matches no row is no error.
CancelUpdate_Lenient(p) ==
  /\ pc[p] = "cancel_update"
  /\ \E answered \in BOOLEAN :
       /\ Write(p, answered)
       /\ IF answered
          THEN /\ orders' = IF call[p].orderId \in DOMAIN orders
                            THEN [orders EXCEPT ![call[p].orderId].status = "cancelled"]
                            ELSE orders
               /\ Return(p, Ok(call[p].orderId))
          ELSE /\ Return(p, Fail("Failed to cancel order", call[p].orderId))
               /\ UNCHANGED orders
  /\ UNCHANGED <<products, order_items, inventory_logs, call, idx, local, calls, initial, client>>

\* UPDATE orders SET status = 'cancelled' WHERE id = orderId ... .select().single()
CancelUpdate(p) ==
  /\ pc[p] = "cancel_update"
  /\ \E answered \in BOOLEAN :
       /\ Write(p, answered)
       /\ IF answered /\ call[p].orderId \in DOMAIN orders
          THEN /\ orders' = [orders EXCEPT ![call[p].orderId].status = "cancelled"]
               /\ Return(p, Ok(call[p].orderId))
          ELSE /\ Return(p, Fail("Failed to cancel order", call[p].orderId))
               /\ UNCHANGED orders
  /\ UNCHANGED <<products, order_items, inventory_logs, call, idx, local, calls, initial, client>>

\* ------------------------------------------------------------ updateProduct

\* UPDATE products SET quantity_on_hand = updates.quantity_on_hand WHERE id = productId
UpdateProduct(p) ==
  \E productId \in ProductRefs, q \in (0 - 1)..MaxStock, answered \in BOOLEAN :
    /\ InvokeAdmin(p, [name |-> "updateProduct", productId |-> productId,
                  updates |-> [quantity_on_hand |-> q]])
    /\ io' = [io EXCEPT ![p] = [reads |-> 0, writes |-> 1, failed |-> ~answered]]
    /\ IF answered /\ productId \in ProductIds /\ CheckQuantityOnHand(q)
       THEN LET after == [products EXCEPT ![productId].quantity_on_hand = q]
            IN /\ products' = after
               /\ Return(p, Ok(productId))
       ELSE /\ Return(p, Fail("Failed to update product", productId))
            /\ UNCHANGED products
    /\ local' = [local EXCEPT ![p] = NoLocal]
    /\ UNCHANGED <<orders, order_items, inventory_logs, idx, initial, client>>

\* ------------------------------------------------------------ deleteProduct

\* UPDATE products SET is_active = false WHERE id = productId: a soft delete;
\* an id without a row updates nothing and is no error.
DeleteProduct(p) ==
  \E productId \in ProductRefs, answered \in BOOLEAN :
    /\ InvokeAdmin(p, [name |-> "deleteProduct", productId |-> productId])
    /\ io' = [io EXCEPT ![p] = [reads |-> 0, writes |-> 1, failed |-> ~answered]]
    /\ IF answered
       THEN /\ products' = IF productId \in ProductIds
                           THEN [products EXCEPT ![productId].is_active = FALSE]
                           ELSE products
            /\ Return(p, Ok(0))
       ELSE /\ Return(p, Fail("Failed to delete product", productId))
            /\ UNCHANGED products
    /\ local' = [local EXCEPT ![p] = NoLocal]
    /\ UNCHANGED <<orders, order_items, inventory_logs, idx, initial, client>>

\* -------------------------------------------------------------- updateStock

\* The value updateStock assigns to quantity_on_hand: the query builder
\* supabase.from('products').select('quantity_on_hand').eq('id', productId),
\* an object, not the sum of the current quantity and quantityChange.
StockUpdateValue(prods, productId, quantityChange) ==
  [type |-> "query", int |-> 0]

\* quantity_on_hand is an INT column: any other value is rejected.
IsInteger(v) == v.type = "integer"

\* The (transactionType, quantityChange) pairs explored.
StockChanges == {[transactionType |-> "stock_in", quantityChange |-> 1],
                 [transactionType |-> "adjustment", quantityChange |-> 0 - 1]}

\* UPDATE products SET quantity_on_hand = <value> WHERE id = productId, and,
\* when it is accepted, INSERT INTO inventory_logs
UpdateStock(p) ==
  \E productId \in ProductRefs, change \in StockChanges, answered \in BOOLEAN :
    /\ InvokeAdmin(p, [name |-> "updateStock", productId |-> productId,
                  quantityChange |-> change.quantityChange,
                  transactionType |-> change.transactionType, userId |-> p])
    /\ LET quantityChange == change.quantityChange
           transactionType == change.transactionType
           v == StockUpdateValue(products, productId, quantityChange)
       IN IF /\ answered
             /\ productId \in ProductIds
             /\ IsInteger(v)
             /\ CheckQuantityOnHand(v.int)
          THEN LET after == [products EXCEPT ![productId].quantity_on_hand = v.int]
               IN /\ products' = after
                  /\ \E logged \in BOOLEAN :
                       /\ io' = [io EXCEPT ![p] = [reads |-> 0, writes |-> 2, failed |-> ~logged]]
                       /\ IF logged
                          THEN /\ inventory_logs' =
                                    Append(inventory_logs,
                                           [product_id |-> productId,
                                            transaction_type |-> transactionType,
                                            quantity_change |-> quantityChange,
                                            reference_id |-> 0,
                                            created_by |-> p])
                               /\ Return(p, Ok(productId))
                          ELSE /\ Return(p, Fail("Failed to log transaction", productId))
                               /\ UNCHANGED inventory_logs
          ELSE /\ Return(p, Fail("Failed to update stock", productId))
               /\ io' = [io EXCEPT ![p] = [reads |-> 0, writes |-> 1, failed |-> ~answered]]
               /\ UNCHANGED <<products, inventory_logs>>
    /\ local' = [local EXCEPT ![p] = NoLocal]
    /\ UNCHANGED <<orders, order_items, idx, initial, client>>

\* ----------------------------------------------------------------- POS page

\* What can be typed into the quantity field of a cart line.
Typed == {"", "-1", "0", "1", "1.5", "2", "3"}

\* Texts parseInt reads a number from; for every other text it returns NaN.
IsNumeric(text) == text \in {"-1", "0", "1", "1.5", "2", "3"}

\* parseInt(text) of a numeric text: the integer its leading digits spell.
parseInt(text) ==
  CASE text = "-1" -> 0 - 1
    [] text = "0" -> 0
    [] text = "1" -> 1
    [] text = "1.5" -> 1
    [] text = "2" -> 2
    [] text = "3" -> 3

\* parseInt(e.target.value) || 1: NaN and 0 are falsy.
ParsedOrOne(text) ==
  IF IsNumeric(text) /\ parseInt(text) # 0 THEN parseInt(text) ELSE 1

\* Math.max(a, b)
Max(a, b) == IF a >= b THEN a ELSE b

\* useUserProfile: the profile arrives some time after the page was mounted.
LoadProfile ==
  /\ profile = 0
  /\ \E id \in Admins : profile' = id
  /\ UNCHANGED <<tables, pc, call, idx, local, result, io, calls, initial, hook,
                 cart, isCheckoutLoading, handler, isCheckoutOpen, isReceiptOpen, lastOrder, toast>>

\* The toast of handleAddToCart: `${product.name} added to cart`.
AddedToCart(k) == IF k = 1 THEN "Product 1 added to cart" ELSE "Product 2 added to cart"

\* handleAddToCart(product): one more of a product the cart holds, or a new
\* line with quantity 1.
handleAddToCart(k) ==
  /\ \A i \in DOMAIN cart : cart[i].product_id = k => cart[i].quantity < MaxLineQty
  /\ cart' = IF \E i \in DOMAIN cart : cart[i].product_id = k
             THEN [i \in DOMAIN cart |->
                     IF cart[i].product_id = k
                     THEN [cart[i] EXCEPT !.quantity = @ + 1]
                     ELSE cart[i]]
             ELSE Append(cart, [product_id |-> k, quantity |-> 1, product |-> Snapshot(k)])
  /\ toast' = AddedToCart(k)
  /\ UNCHANGED <<tables, pc, call, idx, local, result, io, calls, initial, hook,
                 profile, isCheckoutLoading, handler, isCheckoutOpen, isReceiptOpen, lastOrder>>

\* handleRemoveFromCart(productId)
handleRemoveFromCart(productId) ==
  /\ cart' = SelectSeq(cart, LAMBDA item : item.product_id # productId)
  /\ UNCHANGED <<tables, pc, call, idx, local, result, io, calls, initial, hook,
                 profile, isCheckoutLoading, handler, isCheckoutOpen, isReceiptOpen, lastOrder, toast>>

\* handleUpdateQuantity without its quantity <= 0 branch.
handleUpdateQuantity_Unchecked(productId, quantity) ==
  /\ cart' = [i \in DOMAIN cart |->
                IF cart[i].product_id = productId
                THEN [cart[i] EXCEPT !.quantity = quantity]
                ELSE cart[i]]
  /\ UNCHANGED <<tables, pc, call, idx, local, result, io, calls, initial, hook,
                 profile, isCheckoutLoading, handler, isCheckoutOpen, isReceiptOpen, lastOrder, toast>>

\* handleUpdateQuantity(productId, quantity)
handleUpdateQuantity(productId, quantity) ==
  IF quantity <= 0
  THEN handleRemoveFromCart(productId)
  ELSE /\ cart' = [i \in DOMAIN cart |->
                     IF cart[i].product_id = productId
                     THEN [cart[i] EXCEPT !.quantity = quantity]
                     ELSE cart[i]]
       /\ UNCHANGED <<tables, pc, call, idx, local, result, io, calls, initial, hook,
                      profile, isCheckoutLoading, handler, isCheckoutOpen, isReceiptOpen, lastOrder, toast>>

\* A click on a product card of the product grid.
ProductCard == \E k \in ProductIds : handleAddToCart(k)

\* The controls of a cart line (POSCart): the trash, minus and plus buttons and
\* the quantity field.  The modals do not trap the keyboard focus, so the
\* controls stay in reach while a modal is open.
TrashButton == \E i \in DOMAIN cart : handleRemoveFromCart(cart[i].product_id)

MinusButton ==
  \E i \in DOMAIN cart :
    handleUpdateQuantity(cart[i].product_id, Max(1, cart[i].quantity - 1))

QuantityInput ==
  \E i \in DOMAIN cart, text \in Typed :
    handleUpdateQuantity(cart[i].product_id, ParsedOrOne(text))

PlusButton ==
  \E i \in DOMAIN cart :
    /\ cart[i].quantity < MaxLineQty
    /\ handleUpdateQuantity(cart[i].product_id, cart[i].quantity + 1)

\* "Proceed to Checkout": POSCart renders the button for a non-empty cart only
\* and disables it while a checkout is in flight.
openCheckout ==
  /\ Len(cart) > 0
  /\ ~isCheckoutLoading
  /\ ~isCheckoutOpen
  /\ isCheckoutOpen' = TRUE
  /\ UNCHANGED <<tables, pc, call, idx, local, result, io, calls, initial, hook,
                 cart, profile, isCheckoutLoading, handler, isReceiptOpen, lastOrder, toast>>

\* The close and Cancel buttons of the checkout modal.
closeCheckout ==
  /\ isCheckoutOpen
  /\ isCheckoutOpen' = FALSE
  /\ UNCHANGED <<tables, pc, call, idx, local, result, io, calls, initial, hook,
                 cart, profile, isCheckoutLoading, handler, isReceiptOpen, lastOrder, toast>>

\* The close button of the receipt modal.
closeReceipt ==
  /\ isReceiptOpen
  /\ isReceiptOpen' = FALSE
  /\ UNCHANGED <<tables, pc, call, idx, local, result, io, calls, initial, hook,
                 cart, profile, isCheckoutLoading, handler, isCheckoutOpen, lastOrder, toast>>

\* Entry of createOrder(cashierId, items, ...) for the arguments the page sends.
CreateOrderWith(p, cashierId, items) ==
  /\ Invoke(p, [name |-> "createOrder", cashierId |-> cashierId, items |-> items])
  /\ io' = [io EXCEPT ![p] = NoIo]
  /\ idx' = [idx EXCEPT ![p] = 1]
  /\ local' = [local EXCEPT ![p] = NoLocal]
  /\ IF Len(items) = 0
     THEN Return(p, Fail("Cart is empty", 0))
     ELSE /\ pc' = [pc EXCEPT ![p] = "validate"]
          /\ UNCHANGED result
  /\ UNCHANGED <<tables, initial>>

\* handleCheckout up to its await: "Complete Order" in the checkout modal, a
\* button that is disabled while a checkout is in flight.
handleCheckout(p) ==
  /\ isCheckoutOpen
  /\ ~isCheckoutLoading
  /\ IF Len(cart) = 0
     THEN /\ toast' = "Cart is empty"
          /\ UNCHANGED <<tables, pc, call, idx, local, result, io, calls, initial,
                         isCheckoutLoading, handler>>
     ELSE IF profile = 0
     THEN /\ toast' = "User profile not loaded"
          /\ UNCHANGED <<tables, pc, call, idx, local, result, io, calls, initial,
                         isCheckoutLoading, handler>>
     ELSE /\ p = profile
          /\ isCheckoutLoading' = TRUE
          /\ handler' = "awaiting"
          /\ CreateOrderWith(p, profile, cart)
          /\ UNCHANGED toast
  /\ UNCHANGED <<hook, cart, profile, isCheckoutOpen, isReceiptOpen, lastOrder>>

\* The rest of handleCheckout with setCart([]) moved into the finally block.
checkoutSettled_AlwaysClear(p) ==
  /\ handler = "awaiting"
  /\ call[p].name = "createOrder"
  /\ \E thrown \in BOOLEAN :
       /\ thrown \/ pc[p] = "done"
       /\ IF ~thrown /\ result[p].success /\ result[p].data # 0
          THEN /\ toast' = "Order created successfully!"
               /\ lastOrder' = result[p].data
               /\ isCheckoutOpen' = FALSE
               /\ isReceiptOpen' = TRUE
          ELSE /\ toast' = IF thrown THEN "Failed to process checkout" ELSE result[p].error
               /\ UNCHANGED <<lastOrder, isCheckoutOpen, isReceiptOpen>>
  /\ cart' = <<>>
  /\ isCheckoutLoading' = FALSE
  /\ handler' = "idle"
  /\ UNCHANGED <<tables, pc, call, idx, local, result, io, calls, initial, hook, profile>>

\* The rest of handleCheckout: the promise of createOrder is fulfilled with the
\* response of the server action, or rejected when the request or its response
\* is lost; then the finally block.
checkoutSettled(p) ==
  /\ handler = "awaiting"
  /\ call[p].name = "createOrder"
  /\ \E thrown \in BOOLEAN :
       /\ thrown \/ pc[p] = "done"
       /\ IF ~thrown /\ result[p].success /\ result[p].data # 0
          THEN /\ toast' = "Order created successfully!"
               /\ lastOrder' = result[p].data
               /\ cart' = <<>>
               /\ isCheckoutOpen' = FALSE
               /\ isReceiptOpen' = TRUE
          ELSE /\ toast' = IF thrown THEN "Failed to process checkout" ELSE result[p].error
               /\ UNCHANGED <<lastOrder, cart, isCheckoutOpen, isReceiptOpen>>
  /\ isCheckoutLoading' = FALSE
  /\ handler' = "idle"
  /\ UNCHANGED <<tables, pc, call, idx, local, result, io, calls, initial, hook, profile>>

\* -------------------------------------------------- useSupabaseSubscription

\* The events a hook can subscribe with.
Events == {"INSERT", "UPDATE", "DELETE", "*"}

\* The empty record a payload carries for the side it has no row for: "new" of
\* a DELETE, "old" of an INSERT.
NoRecord == [id |-> 0, rev |-> 0]

\* The callback handed to channel.on(...): the next value of data for a payload.
OnPayload(prev, payload) ==
  IF event = "INSERT" \/ event = "*"
  THEN Append(prev, payload.new)
  ELSE IF event = "UPDATE" \/ event = "*"
  THEN [i \in DOMAIN prev |-> IF prev[i].id = payload.new.id THEN payload.new ELSE prev[i]]
  ELSE IF event = "DELETE" \/ event = "*"
  THEN SelectSeq(prev, LAMBDA item : item.id # payload.old.id)
  ELSE prev

\* The channel delivers the payloads of the subscribed event only.
Deliver(payload) ==
  /\ data' = IF event = "*" \/ event = payload.eventType
             THEN OnPayload(data, payload)
             ELSE data
  /\ Len(data') <= MaxHeld
  /\ UNCHANGED <<tables, pc, call, idx, local, result, io, calls, initial, page, event>>

\* A row is inserted into the subscribed table.
RowInserted ==
  \E k \in ItemIds :
    /\ watched[k] = 0
    /\ watched' = [watched EXCEPT ![k] = 1]
    /\ Deliver([eventType |-> "INSERT", new |-> [id |-> k, rev |-> 1], old |-> NoRecord])

\* A row of the subscribed table is updated.
RowUpdated ==
  \E k \in ItemIds :
    /\ watched[k] > 0
    /\ watched[k] < MaxRev
    /\ watched' = [watched EXCEPT ![k] = @ + 1]
    /\ Deliver([eventType |-> "UPDATE",
                new |-> [id |-> k, rev |-> watched[k] + 1],
                old |-> [id |-> k, rev |-> watched[k]]])

\* A row of the subscribed table is deleted.
RowDeleted ==
  \E k \in ItemIds :
    /\ watched[k] > 0
    /\ watched' = [watched EXCEPT ![k] = 0]
    /\ Deliver([eventType |-> "DELETE", new |-> NoRecord, old |-> [id |-> k, rev |-> watched[k]]])

\* ------------------------------------------------------------ specification

\* One step of caller p.
Step(p) ==
  \/ CreateOrderCall(p)
  \/ ValidateItem(p)
  \/ InsertOrder(p)
  \/ InsertItems(p)
  \/ SoftDelete(p)
  \/ CancelOrderCall(p)
  \/ CancelIncrement(p)
  \/ CancelLog(p)
  \/ CancelUpdate(p)
  \/ UpdateProduct(p)
  \/ UpdateStock(p)

Next == \E p \in Procs : Step(p)

\* Any callers, any interleaving of their statements.
Spec == Init /\ [][Next]_vars

\* One caller: the server actions, deleteProduct among them, run one after
\* the other.
NextSolo == \E p \in Admins : Step(p) \/ DeleteProduct(p)

SpecSolo == Init /\ [][NextSolo]_vars

\* Two checkouts invoked at the same moment: both callers have entered
\* createOrder with a non-empty cart and neither has sent a statement yet.
InitRace ==
  /\ products \in StockedProducts(SeedCatalog)
  /\ orders = <<>>
  /\ order_items = <<>>
  /\ inventory_logs = <<>>
  /\ pc = [p \in Procs |-> "validate"]
  /\ call \in [Procs -> {[name |-> "createOrder", cashierId |-> c, items |-> items] :
                          c \in Procs, items \in Carts \ {<<>>}}]
  /\ \A p \in Procs : call[p].cashierId = p
  /\ idx = [p \in Procs |-> 1]
  /\ local = [p \in Procs |-> NoLocal]
  /\ result = [p \in Procs |-> NoResult]
  /\ io = [p \in Procs |-> NoIo]
  /\ calls = Cardinality(Procs)
  /\ initial = Qty(products)
  /\ PageInit
  /\ HookInit

SpecRace == InitRace /\ [][Next]_vars

\* The statements of createOrder.
CheckoutStep(p) ==
  \/ ValidateItem(p)
  \/ InsertOrder(p)
  \/ InsertItems(p)
  \/ SoftDelete(p)

\* One checkout over any catalog, by a client that sends any snapshot.
InitPricing ==
  /\ products \in UNION {StockedProducts(catalog) : catalog \in Catalogs}
  /\ orders = <<>>
  /\ order_items = <<>>
  /\ inventory_logs = <<>>
  /\ pc = [p \in Procs |-> "idle"]
  /\ call = [p \in Procs |-> NoCall]
  /\ idx = [p \in Procs |-> 0]
  /\ local = [p \in Procs |-> NoLocal]
  /\ result = [p \in Procs |-> NoResult]
  /\ io = [p \in Procs |-> NoIo]
  /\ calls = MaxCalls - 1
  /\ initial = Qty(products)
  /\ PageInit
  /\ HookInit

NextPricing == \E p \in Admins : CreateOrderPriced(p) \/ CheckoutStep(p)

SpecPricing == InitPricing /\ [][NextPricing]_vars

\* Checkouts of one caller while another caller reads orders.
NextReaders ==
  \/ \E p \in Admins : CreateOrderCall(p) \/ CheckoutStep(p)
  \/ \E p \in Procs \ Admins : GetOrderById(p)

SpecReaders == Init /\ [][NextReaders]_vars

\* Checkouts and cancellations of one caller while another caller lists
\* orders.
NextListing ==
  \/ \E p \in Admins :
       \/ CreateOrderCall(p) \/ CheckoutStep(p)
       \/ CancelOrderCall(p) \/ CancelIncrement(p) \/ CancelLog(p) \/ CancelUpdate(p)
  \/ \E p \in Procs \ Admins :
       GetOrdersByCashier(p) \/ GetAllOrders(p) \/ GetOrdersByDateRange(p)

SpecListing == Init /\ [][NextListing]_vars

\* The POS page of one cashier: the cart, the modals and checkouts.
NextPos ==
  \/ LoadProfile
  \/ ProductCard
  \/ TrashButton
  \/ MinusButton
  \/ QuantityInput
  \/ PlusButton
  \/ openCheckout
  \/ closeCheckout
  \/ closeReceipt
  \/ \E p \in Admins : handleCheckout(p) \/ CheckoutStep(p) \/ checkoutSettled(p)

\* The page is mounted over a fully stocked catalog.
InitPos ==
  /\ products = [k \in ProductIds |-> [quantity_on_hand |-> MaxStock,
                                       price |-> SeedCatalog[k].price,
                                       tax_rate |-> SeedCatalog[k].tax_rate,
                                       is_active |-> TRUE]]
  /\ orders = <<>>
  /\ order_items = <<>>
  /\ inventory_logs = <<>>
  /\ pc = [p \in Procs |-> "idle"]
  /\ call = [p \in Procs |-> NoCall]
  /\ idx = [p \in Procs |-> 0]
  /\ local = [p \in Procs |-> NoLocal]
  /\ result = [p \in Procs |-> NoResult]
  /\ io = [p \in Procs |-> NoIo]
  /\ calls = MaxCalls - 2
  /\ initial = Qty(products)
  /\ PageInit
  /\ HookInit

SpecPos == InitPos /\ [][NextPos]_vars

\* The page before any checkout: the product grid, the controls of the cart
\* and the checkout modal.
NextCart ==
  \/ LoadProfile
  \/ ProductCard
  \/ TrashButton
  \/ MinusButton
  \/ QuantityInput
  \/ PlusButton
  \/ openCheckout
  \/ closeCheckout

SpecCart == InitPos /\ [][NextCart]_vars

\* A hook subscribed with any event, while rows of the table it subscribed to
\* are inserted, updated and deleted.
InitSubscription ==
  /\ products = [k \in ProductIds |-> [quantity_on_hand |-> MaxStock,
                                       price |-> SeedCatalog[k].price,
                                       tax_rate |-> SeedCatalog[k].tax_rate,
                                       is_active |-> TRUE]]
  /\ orders = <<>>
  /\ order_items = <<>>
  /\ inventory_logs = <<>>
  /\ pc = [p \in Procs |-> "idle"]
  /\ call = [p \in Procs |-> NoCall]
  /\ idx = [p \in Procs |-> 0]
  /\ local = [p \in Procs |-> NoLocal]
  /\ result = [p \in Procs |-> NoResult]
  /\ io = [p \in Procs |-> NoIo]
  /\ calls = 0
  /\ initial = Qty(products)
  /\ PageInit
  /\ event \in Events
  /\ data = <<>>
  /\ watched \in [ItemIds -> 0..MaxRev]

NextSubscription == RowInserted \/ RowUpdated \/ RowDeleted

SpecSubscription == InitSubscription /\ [][NextSubscription]_vars

\* ------------------------------------------------------------------- types

TypeOK ==
  /\ \A k \in ProductIds : products[k].quantity_on_hand \in Int
  /\ \A i \in DOMAIN orders : orders[i].status \in {"pending", "completed", "cancelled"}
  /\ calls \in 0..MaxCalls

\* ================================================================== claims

Done(p, name) == pc[p] = "done" /\ call[p].name = name

\* C1: in every reachable state, after any interleaving of createOrder,
\* cancelOrder, updateStock and updateProduct, every product has
\* quantity_on_hand >= 0.
C1_StockNonNegative ==
  \A k \in ProductIds : products[k].quantity_on_hand >= 0

\* An order was checked out and cancelled, and then an update that sets a
\* negative quantity was refused.
C1_Witness ==
  \E p \in Procs :
    /\ Done(p, "updateProduct")
    /\ call[p].productId \in ProductIds
    /\ call[p].updates.quantity_on_hand < 0
    /\ ~io[p].failed
    /\ ~result[p].success
    /\ \E o \in DOMAIN orders :
         /\ orders[o].status = "cancelled"
         /\ Len(ItemsOfOrder(order_items, o)) > 0

\* ---------------------------------------------------------------------- C2

Succeeded(p) == result[p].success
FailedWith(p, e) == ~result[p].success /\ result[p].error = e

\* C2 (as claimed): two checkouts that run concurrently, each requesting Q of
\* the same product whose quantity_on_hand is exactly Q, end with exactly one
\* success and one InsufficientStock failure; both never succeed.  Stated for
\* the two checkouts SpecRace starts with, when neither ended in a persistence
\* failure (an unanswered statement, an order number already taken).
PersistenceFailures == {"Failed to create order", "Failed to create order items"}

C2_Original ==
  \A p, q \in Procs :
    ( /\ p # q
      /\ calls = Cardinality(Procs)
      /\ Done(p, "createOrder") /\ Done(q, "createOrder")
      /\ ~io[p].failed /\ ~io[q].failed
      /\ result[p].error \notin PersistenceFailures
      /\ result[q].error \notin PersistenceFailures
      /\ Len(call[p].items) = 1
      /\ call[q].items = call[p].items
      /\ call[p].items[1].product_id \in ProductIds
      /\ initial[call[p].items[1].product_id] = call[p].items[1].quantity )
    => \/ Succeeded(p) /\ FailedWith(q, "Insufficient stock for product")
       \/ Succeeded(q) /\ FailedWith(p, "Insufficient stock for product")

\* ---------------------------------------------------------------------- C3

\* C3 (as claimed): if createOrder returns failure, at whatever step, no order,
\* no order line and no inventory log entry created by that attempt exists in
\* the store afterwards.
C3_Original ==
  \A p \in Procs :
    (Done(p, "createOrder") /\ ~result[p].success)
    => /\ local[p].order \notin DOMAIN orders
       /\ Len(ItemsOfOrder(order_items, local[p].order)) = 0
       /\ \A i \in DOMAIN inventory_logs :
            inventory_logs[i].reference_id # local[p].order

\* ---------------------------------------------------------------------- C4

RECURSIVE SumFrom(_, _)
SumFrom(s, i) == IF i > Len(s) THEN 0 ELSE s[i] + SumFrom(s, i + 1)

\* The signed sum of quantity_change over the entries that satisfy Keep.
SumChanges(logs, Keep(_)) ==
  LET kept == SelectSeq(logs, Keep)
  IN SumFrom([i \in DOMAIN kept |-> kept[i].quantity_change], 1)

\* C4 (as claimed): for every product and in every reachable state,
\* quantity_on_hand equals the initial quantity plus the signed sum of
\* quantity_change over the inventory log entries recorded for that product.
C4_Original ==
  \A k \in ProductIds :
    products[k].quantity_on_hand =
      initial[k] + SumChanges(inventory_logs, LAMBDA e : e.product_id = k)

\* ---------------------------------------------------------------------- C5

\* The quantity the cart requests of product k, over all its lines.
Requested(items, k) ==
  SumFrom([i \in DOMAIN items |->
             IF items[i].product_id = k THEN items[i].quantity ELSE 0], 1)

\* The sale entry the claim expects for one cart line.
SaleEntry(line, orderId, cashierId) ==
  [product_id |-> line.product_id, transaction_type |-> "sale",
   quantity_change |-> 0 - line.quantity, reference_id |-> orderId,
   created_by |-> cashierId]

\* C5 (as claimed): when checkout succeeds, for each cart line the product's
\* quantity_on_hand has decreased by the requested quantity and exactly one
\* sale entry with quantity_change = -(requested quantity), referencing the new
\* order and the cashier, has been appended.  Stated for a checkout that is the
\* only action run so far (SpecSolo, calls = 1).
C5_Original ==
  \A p \in Procs :
    (calls = 1 /\ Done(p, "createOrder") /\ Succeeded(p))
    => LET items == call[p].items
           entry(i) == SaleEntry(items[i], result[p].data, call[p].cashierId)
       IN /\ \A k \in ProductIds :
               products[k].quantity_on_hand = initial[k] - Requested(items, k)
          /\ \A i \in DOMAIN items :
               Cardinality({j \in DOMAIN inventory_logs : inventory_logs[j] = entry(i)})
                 = Cardinality({j \in DOMAIN items : items[j] = items[i]})

\* ---------------------------------------------------------------------- C6

\* C6 (as claimed): after cancelOrder succeeds on an order that was created by
\* a successful checkout and was in status completed, the quantity_change of
\* the inventory log entries that reference the order sums to zero and the
\* order's status is cancelled.
C6_Original ==
  \A p \in Procs :
    ( /\ Done(p, "cancelOrder") /\ Succeeded(p)
      /\ call[p].statusBefore = "completed"
      /\ Len(ItemsOfOrder(order_items, call[p].orderId)) > 0 )
    => /\ SumChanges(inventory_logs,
                     LAMBDA e : e.reference_id = call[p].orderId) = 0
       /\ orders[call[p].orderId].status = "cancelled"

\* ---------------------------------------------------------------------- C7

CancelSteps == {"cancel_rpc", "cancel_log", "cancel_update"}

\* C7 (as claimed): cancelOrder called on an order whose status is not
\* completed fails and changes nothing: none of its steps changes a product
\* quantity, adds an inventory log entry or changes the order status, and it
\* does not return success.  Stated for an order that has lines, the case of a
\* second cancelOrder on the same order.
C7_Original ==
  [][\A p \in Procs :
       ( /\ call[p].name = "cancelOrder"
         /\ pc[p] \in CancelSteps
         /\ pc'[p] # pc[p]
         /\ call[p].statusBefore \in {"cancelled", "pending"}
         /\ Len(local[p].orderItems) > 0 )
       => /\ products' = products
          /\ inventory_logs' = inventory_logs
          /\ orders' = orders
          /\ pc'[p] = "done" => ~result'[p].success]_vars

\* ---------------------------------------------------------------------- C8

\* C8 (as claimed): a successful checkout followed by a successful cancelOrder
\* of that order, with no other operation in between, leaves every product's
\* quantity_on_hand equal to its value before the checkout.  Stated for the
\* first two actions of one caller (SpecSolo, calls = 2).
C8_Original ==
  \A p \in Procs :
    ( /\ calls = 2
      /\ Done(p, "cancelOrder") /\ Succeeded(p)
      /\ call[p].statusBefore = "completed"
      /\ Len(ItemsOfOrder(order_items, call[p].orderId)) > 0 )
    => Qty(products) = initial

\* ---------------------------------------------------------------------- C9

\* C9: createOrder with an empty item list returns the 'Cart is empty' failure
\* at once: it never reaches a later step and sends no read and no write to
\* the database.
C9_EmptyCartNoIO ==
  \A p \in Procs :
    (call[p].name = "createOrder" /\ Len(call[p].items) = 0)
    => /\ pc[p] = "done"
       /\ result[p] = Fail("Cart is empty", 0)
       /\ io[p].reads = 0
       /\ io[p].writes = 0

\* An empty cart was rejected while the store already holds an order.
C9_Witness ==
  \E p \in Procs :
    /\ Done(p, "createOrder")
    /\ Len(call[p].items) = 0
    /\ FailedWith(p, "Cart is empty")
    /\ Len(orders) > 0

\* --------------------------------------------------------------------- C10

Missing(line) == line.product_id \notin ProductIds
Short(line) ==
  /\ ~Missing(line)
  /\ products[line.product_id].quantity_on_hand < line.quantity

\* C10 (as claimed): if any cart line references a product that cannot be
\* found, checkout fails with ProductNotFound naming that id; if any cart line
\* requests more than the product's quantity_on_hand, checkout fails with
\* InsufficientStock.  Stated for a checkout that is the only action run so
\* far and whose statements the database answered.
C10_Original ==
  \A p \in Procs :
    (calls = 1 /\ Done(p, "createOrder") /\ ~io[p].failed)
    => LET items == call[p].items
       IN /\ (\E i \in DOMAIN items : Missing(items[i]))
               => /\ FailedWith(p, "Product not found")
                  /\ \E i \in DOMAIN items :
                       Missing(items[i]) /\ result[p].arg = items[i].product_id
          /\ (\E i \in DOMAIN items : Short(items[i]))
               => FailedWith(p, "Insufficient stock for product")

\* The step in which caller p validates one cart line.
ValidationStep(p) ==
  /\ pc[p] = "validate"
  /\ pc'[p] # "validate" \/ idx'[p] # idx[p]

\* C10 (amended): checkout fails with the error of the first cart line, in
\* cart order, that does not pass validation: ProductNotFound naming that
\* line's product id when its product cannot be read, otherwise
\* InsufficientStock naming it when the line requests more than the
\* quantity_on_hand just read; a line that passes moves validation to the next
\* line.  No validation step writes a table, and validation runs before any
\* write of the checkout.
C10_FirstOffendingLine ==
  /\ [](\A p \in Procs :
          pc[p] = "validate" => /\ io[p].writes = 0
                                /\ local[p].order = 0
                                /\ ~io[p].failed)
  /\ [][\A p \in Procs :
          ValidationStep(p) =>
            LET line == call[p].items[idx[p]]
                answered == ~io'[p].failed
            IN /\ UNCHANGED tables
               /\ io'[p].writes = 0
               /\ (Missing(line) \/ ~answered)
                    => /\ pc'[p] = "done"
                       /\ result'[p] = Fail("Product not found", line.product_id)
               /\ (answered /\ Short(line))
                    => /\ pc'[p] = "done"
                       /\ result'[p] = Fail("Insufficient stock for product",
                                            line.product_id)
               /\ (answered /\ ~Missing(line) /\ ~Short(line))
                    => /\ result'[p] = result[p]
                       /\ idx'[p] = idx[p] + 1
                       /\ pc'[p] = IF idx[p] = Len(call[p].items)
                                   THEN "insert_order" ELSE "validate"]_vars

\* A checkout whose first line is short of stock and whose second line names
\* a product without a row was rejected for the first line.
C10_Witness ==
  \E p \in Procs :
    /\ Done(p, "createOrder")
    /\ ~io[p].failed
    /\ Len(call[p].items) = 2
    /\ Short(call[p].items[1])
    /\ Missing(call[p].items[2])
    /\ result[p] = Fail("Insufficient stock for product", call[p].items[1].product_id)
    /\ io[p].writes = 0

\* --------------------------------------------------------------------- C11

\* C11 (as claimed): no partial order is visible to a reader.  Whenever
\* getOrderById has returned an order in status completed, what it returned
\* has one order line per cart line of the checkout that created the order,
\* also when that checkout was still in progress at the time of the read.
C11_Original ==
  \A r, c \in Procs :
    ( /\ Done(r, "getOrderById") /\ Succeeded(r)
      /\ result[r].data.order.status = "completed"
      /\ call[c].name = "createOrder"
      /\ local[c].order = result[r].data.order.id )
    => Len(result[r].data.items) = Len(call[c].items)

\* --------------------------------------------------------------------- C12

\* The lines of a cart priced from the products table.
LivePriced(items, prods) ==
  [i \in DOMAIN items |-> [product_id |-> items[i].product_id,
                           quantity |-> items[i].quantity,
                           unit_price |-> prods[items[i].product_id].price,
                           tax_rate |-> prods[items[i].product_id].tax_rate]]

\* C12 (as claimed): every order line written by checkout carries the price
\* and the tax rate of its product in the products table, whatever snapshot
\* the client sent, and the totals of the order header are those of the lines
\* priced from the products table, hence the same for every snapshot.  Stated
\* for one checkout over a catalog that does not change (SpecPricing).
C12_Original ==
  /\ \A i \in DOMAIN order_items :
       /\ order_items[i].unit_price = products[order_items[i].product_id].price
       /\ order_items[i].tax_rate = products[order_items[i].product_id].tax_rate
  /\ \A p \in Procs :
       (Done(p, "createOrder") /\ Succeeded(p))
       => LET live == calculateCartTotals(LivePriced(call[p].items, products))
              o == orders[result[p].data]
          IN /\ o.subtotal = live.subtotal
             /\ o.tax_total = live.tax
             /\ o.total = live.total

\* --------------------------------------------------------------------- C13

\* cancelOrder has returned from cancelling the order that the one checkout
\* before it created: the order had status completed and has lines, and
\* nothing but that checkout ran before (SpecSolo, calls = 2).
CancelledFirstOrder(p) ==
  /\ calls = 2
  /\ Done(p, "cancelOrder")
  /\ call[p].statusBefore = "completed"
  /\ Len(ItemsOfOrder(order_items, call[p].orderId)) > 0

\* C13 (as claimed): cancellation is one atomic unit of work.  If cancelOrder
\* returns failure, or one of its statements fails, then no product quantity
\* has changed, no inventory log entry has been added and the status of the
\* order is unchanged.
C13_Original ==
  \A p \in Procs :
    (CancelledFirstOrder(p) /\ (~Succeeded(p) \/ io[p].failed))
    => /\ Qty(products) = initial
       /\ inventory_logs = <<>>
       /\ orders[call[p].orderId].status = "completed"

\* --------------------------------------------------------------------- C14

\* C14 (as claimed): no error is silently swallowed.  Whenever a statement
\* that createOrder or cancelOrder sent to the database failed, the operation
\* returns success = false with a non-empty error.
C14_Original ==
  \A p \in Procs :
    ( /\ pc[p] = "done"
      /\ call[p].name \in {"createOrder", "cancelOrder"}
      /\ io[p].failed )
    => /\ ~result[p].success
       /\ result[p].error # ""

\* --------------------------------------------------------------------- C15

\* The checkout of caller p passed validation: it went on to write.
PassedValidation(p) == call[p].name = "createOrder" /\ io[p].writes > 0

\* No order of cashier c, none of its lines and no log entry for it exists.
NothingRemainsOf(c) ==
  /\ \A o \in DOMAIN orders : orders[o].cashier_id # c
  /\ \A i \in DOMAIN order_items : orders[order_items[i].order_id].cashier_id # c
  /\ \A i \in DOMAIN inventory_logs : inventory_logs[i].created_by # c

\* C15 (as claimed): when two concurrent checkouts both passed validation and
\* together request more of a product than was in stock, so that the stock
\* one of them validated against is consumed by the other, one of them is
\* rolled back (no order, line or log entry of it remains) and reports
\* InsufficientStock.  Stated for the two checkouts SpecRace starts with, when
\* the database answered every statement and no order number collided.
C15_Original ==
  \A p, q \in Procs :
    ( /\ p # q
      /\ Done(p, "createOrder") /\ Done(q, "createOrder")
      /\ PassedValidation(p) /\ PassedValidation(q)
      /\ ~io[p].failed /\ ~io[q].failed
      /\ result[p].error \notin PersistenceFailures
      /\ result[q].error \notin PersistenceFailures
      /\ \E k \in ProductIds :
           Requested(call[p].items, k) + Requested(call[q].items, k) > initial[k] )
    => \E loser \in {p, q} :
         /\ FailedWith(loser, "Insufficient stock for product")
         /\ NothingRemainsOf(loser)

\* --------------------------------------------------------------------- C16

\* C16: the status lifecycle of orders.  No order has status pending; every
\* step that adds an order adds it in status completed and removes none; the
\* only change of an order's status is from completed to cancelled, so that
\* the status of a cancelled order never changes again.
C16_StatusLifecycle ==
  /\ [](\A o \in DOMAIN orders : orders[o].status \in {"completed", "cancelled"})
  /\ [][/\ Len(orders') >= Len(orders)
         /\ \A o \in DOMAIN orders' :
              IF o \in DOMAIN orders
              THEN \/ orders'[o].status = orders[o].status
                   \/ orders[o].status = "completed" /\ orders'[o].status = "cancelled"
              ELSE orders'[o].status = "completed"]_vars

\* cancelOrder has succeeded on an order that was already cancelled, and the
\* order is still cancelled.
C16_Witness ==
  \E p \in Procs :
    /\ Done(p, "cancelOrder") /\ Succeeded(p)
    /\ call[p].statusBefore = "cancelled"
    /\ orders[call[p].orderId].status = "cancelled"

\* --------------------------------------------------------------------- C17

\* round(price * qty * (1 + tax / 100)) of one order line, in cents.
RoundedLine(line) ==
  Round(line.unit_price * line.quantity * (10000 + line.tax_rate), 10000)

\* C17: for every order created by a successful checkout, with amounts in
\* integer cents, the total of the header is the sum over the order's lines
\* of round(price * qty * (1 + tax / 100)), and total = subtotal + tax_total.
C17_TotalIsSumOfRoundedLines ==
  \A p \in Procs :
    (Done(p, "createOrder") /\ Succeeded(p))
    => LET o == orders[result[p].data]
           lines == ItemsOfOrder(order_items, o.id)
       IN /\ o.total = SumFrom([i \in DOMAIN lines |-> RoundedLine(lines[i])], 1)
          /\ o.total = o.subtotal + o.tax_total

\* An order of two lines whose tax is half a cent each: each line rounds up
\* on its own (5 + 1 twice), where rounding the sum once would give 11.
C17_Witness ==
  \E p \in Procs :
    /\ Done(p, "createOrder") /\ Succeeded(p)
    /\ Len(ItemsOfOrder(order_items, result[p].data)) = 2
    /\ orders[result[p].data].subtotal = 10
    /\ orders[result[p].data].tax_total = 2
    /\ orders[result[p].data].total = 12

\* --------------------------------------------------------------------- C18

\* Every row of the table before the step is the same row after it.
Kept(before, after) ==
  /\ Len(after) >= Len(before)
  /\ \A i \in DOMAIN before : after[i] = before[i]

\* C18: the inventory log is append-only.  Across checkout, cancelOrder,
\* updateStock, updateProduct and deleteProduct, every step keeps every
\* inventory log entry and every order line unchanged: entries are only added
\* at the end, and cancelOrder deletes neither lines nor log entries.
C18_AppendOnly ==
  [][/\ Kept(inventory_logs, inventory_logs')
     /\ Kept(order_items, order_items')]_vars

\* An order of two lines was checked out, a product was deleted and the
\* order was cancelled: the second return entry was appended after the first.
C18_Witness ==
  \E p \in Procs :
    /\ Done(p, "cancelOrder") /\ Succeeded(p)
    /\ Len(ItemsOfOrder(order_items, call[p].orderId)) = 2
    /\ Len(inventory_logs) = 2
    /\ \E k \in ProductIds : ~products[k].is_active

\* --------------------------------------------------------------------- C19

\* The return entry the claim expects for one order line.
ReturnEntry(line, orderId, userId) ==
  [product_id |-> line.product_id, transaction_type |-> "return",
   quantity_change |-> line.quantity, reference_id |-> orderId,
   created_by |-> userId]

\* C19 (as claimed): a successful cancelOrder appends exactly one inventory
\* log entry per line of the order, of type return with quantity_change =
\* +(the line's quantity), referencing the order and created by the
\* cancelling user, and increases the quantity_on_hand of each line's product
\* by that quantity.  Stated for the cancellation of the order that the one
\* checkout before it created (SpecSolo, calls = 2), where the log was empty
\* and the stock was the initial stock before the cancellation.
C19_Original ==
  \A p \in Procs :
    (CancelledFirstOrder(p) /\ Succeeded(p))
    => LET lines == ItemsOfOrder(order_items, call[p].orderId)
       IN /\ inventory_logs =
               [i \in DOMAIN lines |->
                  ReturnEntry(lines[i], call[p].orderId, call[p].userId)]
          /\ \A k \in ProductIds :
               products[k].quantity_on_hand = initial[k] + Requested(lines, k)

\* --------------------------------------------------------------------- C20

\* C20 (as claimed): when the insert of the order header fails because the
\* generated order number is already taken, checkout retries with a fresh
\* number, up to 3 attempts, and fails only when they are exhausted: a
\* checkout that failed at the header insert although the database answered
\* every statement has sent at least 3 inserts.
C20_Original ==
  \A p \in Procs :
    ( /\ Done(p, "createOrder")
      /\ ~io[p].failed
      /\ FailedWith(p, "Failed to create order") )
    => io[p].writes >= 3

\* --------------------------------------------------------------------- C21

Listings == {"getOrdersByCashier", "getAllOrders", "getOrdersByDateRange"}

StockEntry(c) ==
  [product_id |-> c.productId, transaction_type |-> c.transactionType,
   quantity_change |-> c.quantityChange, reference_id |-> 0,
   created_by |-> c.userId]

\* C22 (as claimed): updateStock(productId, quantityChange, type, userId)
\* applies the change and logs it as one step.  When it has returned, either
\* it succeeded, the log holds one entry with that quantity_change and the
\* product's quantity_on_hand has changed by exactly quantityChange, or it
\* failed and both are unchanged; and it fails when the change would make
\* the quantity negative and applies the change when it would not.  Stated
\* for an updateStock on an existing product that is the only action run so
\* far and whose statements the database answered.
C22_Original ==
  \A p \in Procs :
    ( /\ calls = 1
      /\ Done(p, "updateStock")
      /\ ~io[p].failed
      /\ call[p].productId \in ProductIds )
    => LET k == call[p].productId
           q == initial[k] + call[p].quantityChange
       IN IF q >= 0
          THEN /\ Succeeded(p)
               /\ inventory_logs = <<StockEntry(call[p])>>
               /\ Qty(products) = [initial EXCEPT ![k] = q]
          ELSE /\ ~Succeeded(p)
               /\ inventory_logs = <<>>
               /\ Qty(products) = initial

\* --------------------------------------------------------------------- C23

\* The cart line names a product that has a row and is soft-deleted.
Inactive(line) ==
  /\ line.product_id \in ProductIds
  /\ ~products[line.product_id].is_active

\* C23 (as claimed): checkout of a cart with a line whose product exists but
\* is inactive (is_active = false after deleteProduct) fails with
\* ProductNotFound and creates no order.  Stated for one caller (SpecSolo),
\* whose checkout follows the deleteProduct, with every statement answered,
\* and for a cart whose lines all name a row that holds enough stock.
C23_Original ==
  \A p \in Procs :
    ( /\ Done(p, "createOrder")
      /\ ~io[p].failed
      /\ \A i \in DOMAIN call[p].items :
           ~Missing(call[p].items[i]) /\ ~Short(call[p].items[i])
      /\ \E i \in DOMAIN call[p].items : Inactive(call[p].items[i]) )
    => /\ FailedWith(p, "Product not found")
       /\ local[p].order = 0

\* --------------------------------------------------------------------- C24

\* C24 (as claimed): a checkout succeeds only if, for every product, the
\* quantity requested over all the cart lines that name the product is at
\* most the product's quantity_on_hand at validation time; a cart that lists
\* a product on two lines that together exceed the stock is rejected with
\* InsufficientStock.  Stated for a checkout that is the only action run so
\* far (SpecSolo, calls = 1), so that the stock at validation time is the
\* initial stock, and whose statements the database answered.
C24_Original ==
  \A p \in Procs :
    ( /\ calls = 1
      /\ Done(p, "createOrder")
      /\ ~io[p].failed
      /\ \A i \in DOMAIN call[p].items : ~Missing(call[p].items[i]) )
    => /\ Succeeded(p)
            => \A k \in ProductIds : Requested(call[p].items, k) <= initial[k]
       /\ (\E k \in ProductIds : Requested(call[p].items, k) > initial[k])
            => FailedWith(p, "Insufficient stock for product")

\* --------------------------------------------------------------------- C25

\* C25 (as claimed): when createOrder returns failure because the insert of
\* the order items failed after the header was inserted, the header of that
\* attempt is not left in status completed: it ends in status cancelled,
\* also when the compensating status update itself fails.
C25_Original ==
  \A p \in Procs :
    (Done(p, "createOrder") /\ FailedWith(p, "Failed to create order items"))
    => /\ local[p].order \in DOMAIN orders
       /\ orders[local[p].order].status = "cancelled"

\* --------------------------------------------------------------------- C26

\* C26: for every order created by a successful checkout, the total of the
\* header equals the sum of line_total over the order's lines (integer
\* cents), and the order has as many lines as the cart submitted.
C26_TotalIsSumOfLineTotals ==
  \A p \in Procs :
    (Done(p, "createOrder") /\ Succeeded(p))
    => LET o == orders[result[p].data]
           lines == ItemsOfOrder(order_items, o.id)
       IN /\ o.total = SumFrom([i \in DOMAIN lines |-> lines[i].line_total], 1)
          /\ Len(lines) = Len(call[p].items)

\* An order of two taxed lines of different price: line totals 6 and 219.
C26_Witness ==
  \E p \in Procs :
    /\ Done(p, "createOrder") /\ Succeeded(p)
    /\ LET lines == ItemsOfOrder(order_items, result[p].data)
       IN /\ Len(lines) = 2
          /\ lines[1].line_total = 6
          /\ lines[2].line_total = 219
    /\ orders[result[p].data].total = 225

\* --------------------------------------------------------------------- C27

\* C27: cancelOrder called with an order id that does not exist returns
\* failure with an error, and none of its statements changes a product
\* quantity, adds an inventory log entry or creates or modifies an order.
C27_NoSuchOrder ==
  /\ [](\A p \in Procs :
          (Done(p, "cancelOrder") /\ call[p].orderId \notin DOMAIN orders)
          => /\ ~Succeeded(p)
             /\ result[p].error \in {"Failed to fetch order items", "Failed to cancel order"})
  /\ [][\A p \in Procs :
          ( /\ call[p].name = "cancelOrder"
            /\ pc[p] \in CancelSteps
            /\ pc'[p] # pc[p]
            /\ call[p].orderId \notin DOMAIN orders )
          => /\ pc[p] = "cancel_update"
             /\ UNCHANGED tables]_vars

\* With orders in the store, cancelOrder of an id that no order has was
\* answered by the database and failed at the status update.
C27_Witness ==
  \E p \in Procs :
    /\ Done(p, "cancelOrder")
    /\ call[p].orderId \notin DOMAIN orders
    /\ ~io[p].failed
    /\ io[p].writes = 1
    /\ FailedWith(p, "Failed to cancel order")
    /\ Len(orders) > 0

\* --------------------------------------------------------------------- C28

\* A cart with at most one line per product id, every line with an integer
\* quantity of at least 1.
CartWellFormed(c) ==
  /\ \A i, j \in DOMAIN c : c[i].product_id = c[j].product_id => i = j
  /\ \A i \in DOMAIN c : c[i].quantity \in Nat /\ c[i].quantity >= 1

\* C28: after any sequence of handleAddToCart, handleUpdateQuantity and
\* handleRemoveFromCart the cart holds at most one line per product id and
\* every line has quantity >= 1; handleUpdateQuantity with a quantity <= 0
\* removes the line of that product instead of storing the quantity.
C28_CartWellFormed ==
  /\ [](CartWellFormed(cart))
  /\ [][\A i \in DOMAIN cart, text \in Typed :
          ( /\ ParsedOrOne(text) <= 0
            /\ handleUpdateQuantity(cart[i].product_id, ParsedOrOne(text)) )
          => /\ Len(cart') = Len(cart) - 1
             /\ \A j \in DOMAIN cart' : cart'[j].product_id # cart[i].product_id]_vars

\* Both products are in the cart, the one added second at the largest
\* quantity and the one added first at a quantity set in between.
C28_Witness ==
  /\ Len(cart) = 2
  /\ cart[1].product_id = 2
  /\ cart[1].quantity = 2
  /\ cart[2].product_id = 1
  /\ cart[2].quantity = MaxLineQty

\* --------------------------------------------------------------------- C29

\* A step in which handleCheckout finishes after its await.
Settles == handler = "awaiting" /\ handler' = "idle"

\* C29: handleCheckout empties the cart and opens the receipt only when
\* createOrder returned success with data; when createOrder fails or throws
\* it leaves the cart as it is; whenever no handleCheckout is under way
\* isCheckoutLoading is false; and createOrder is never called with an empty
\* cart or without a loaded profile.
C29_CheckoutHandler ==
  /\ [](handler = "idle" => ~isCheckoutLoading)
  /\ [](\A p \in Procs :
          call[p].name = "createOrder"
          => Len(call[p].items) > 0 /\ call[p].cashierId # 0)
  /\ [][/\ ((isReceiptOpen' /\ ~isReceiptOpen) \/ lastOrder' # lastOrder)
           => /\ Settles
              /\ cart' = <<>>
              /\ Done(profile, "createOrder")
              /\ Succeeded(profile)
              /\ lastOrder' = result[profile].data
              /\ lastOrder' \in DOMAIN orders
        /\ Settles
           => IF toast' = "Order created successfully!"
              THEN /\ Done(profile, "createOrder")
                   /\ Succeeded(profile)
                   /\ result[profile].data # 0
                   /\ cart' = <<>>
                   /\ isReceiptOpen'
              ELSE /\ cart' = cart
                   /\ isReceiptOpen' = isReceiptOpen
                   /\ lastOrder' = lastOrder
        /\ (Settles /\ Done(profile, "createOrder") /\ ~Succeeded(profile))
           => /\ cart' = cart
              /\ toast' # "Order created successfully!"]_vars

\* After a checkout that succeeded and opened the receipt of its order, a
\* second checkout was refused by createOrder and left the refilled cart in
\* the page.
C29_Witness ==
  /\ handler = "idle"
  /\ ~isCheckoutLoading
  /\ lastOrder \in DOMAIN orders
  /\ isReceiptOpen
  /\ calls = MaxCalls
  /\ Done(profile, "createOrder")
  /\ ~Succeeded(profile)
  /\ toast = result[profile].error
  /\ cart = call[profile].items

\* --------------------------------------------------------------------- C30

\* The held items that carry the id of a row.
HeldRows == SelectSeq(data, LAMBDA item : item.id \in ItemIds)

\* C30: for a hook subscribed with event '*', after any sequence of INSERT,
\* UPDATE and DELETE payloads the held list contains no two items with the
\* same id and no item whose row was deleted.
C30_Original ==
  event = "*"
  => /\ \A i, j \in DOMAIN HeldRows : HeldRows[i].id = HeldRows[j].id => i = j
     /\ \A i \in DOMAIN HeldRows : watched[HeldRows[i].id] # 0

====
